---- MODULE Spec2Model ----
(***************************************************************************)
(* Snake game loop of LevServerSite/snake/game.js: the global game state,  *)
(* the image-load, slider-change, keydown and timer callbacks, and the     *)
(* food generator with the IEEE-754 double arithmetic JavaScript uses.     *)
(* To-do list of LevServerSite/jQuery_Hoppinglist/js/index.js: the list,   *)
(* the text input and the click and keypress handlers bound with jQuery.   *)
(***************************************************************************)
EXTENDS Integers, Sequences, FiniteSets, TLC

(***************************************************************************)
(* Bounds of the exploration.                                              *)
(***************************************************************************)
\* the head is followed from its initial column to MaxEast columns east of it,
\* and from its initial row to the first row south of the arena
MaxEast == 1
\* ticks that eat are followed while score < MaxScore
MaxScore == 2
\* Math.random() is sampled at its least and its greatest value, 0 and
\* 1 - 2^-53, and at 2^-j for j in 1 .. RandPowers
RandPowers == 1
\* the slider takes the values 1 .. MaxSliderValue
MaxSliderValue == 1
\* the text of the input has at most MaxTextLen tokens
MaxTextLen == 1
\* keypresses of Enter are followed while they create li elements with
\* numbers up to MaxCreated
MaxCreated == 3
\* the list of the page on which only clicks are followed has up to MaxItems
\* items
MaxItems == 3

(***************************************************************************)
(* Game constants, game.js lines 68-72.                                    *)
(***************************************************************************)
arenaWidthBoxes == 17
arenaHeightBoxes == 15
arenaX0Boxes == 1
arenaY0Boxes == 3
boxSidePxls == 32

(***************************************************************************)
(* JavaScript Numbers.  A non-negative double is held as its binary        *)
(* expansion in units of 2^-SignificandBits, least significant bit first.  *)
(* Every value of generateFoodCoords is a multiple of that unit.           *)
(***************************************************************************)
SignificandBits == 53

BitAt(b, i) == IF i <= Len(b) THEN b[i] ELSE 0

RECURSIVE IntToBits(_)
IntToBits(n) == IF n = 0 THEN <<>> ELSE <<n % 2>> \o IntToBits(n \div 2)

RECURSIVE BitsToInt(_)
BitsToInt(b) == IF b = <<>> THEN 0 ELSE b[1] + 2 * BitsToInt(Tail(b))

ShiftLeft(b, k) == [i \in 1..k |-> 0] \o b

RECURSIVE MulCarry(_, _, _, _)
MulCarry(b, c, i, carry) ==
    IF i > Len(b) /\ carry = 0 THEN <<>>
    ELSE LET t == BitAt(b, i) * c + carry
         IN  <<t % 2>> \o MulCarry(b, c, i + 1, t \div 2)

RECURSIVE AddCarry(_, _, _, _)
AddCarry(a, b, i, carry) ==
    IF i > Len(a) /\ i > Len(b) /\ carry = 0 THEN <<>>
    ELSE LET t == BitAt(a, i) + BitAt(b, i) + carry
         IN  <<t % 2>> \o AddCarry(a, b, i + 1, t \div 2)

TopBit(b) == IF \E i \in 1..Len(b) : b[i] = 1
             THEN CHOOSE i \in 1..Len(b) :
                      b[i] = 1 /\ \A j \in (i + 1)..Len(b) : b[j] = 0
             ELSE 0

\* round to nearest, ties to even, on SignificandBits significant bits
RoundToDouble(b) ==
    LET h == TopBit(b)
        s == h - SignificandBits
    IN  IF s <= 0 THEN b
        ELSE LET kept   == SubSeq(b, s + 1, h)
                 sticky == \E i \in 1..(s - 1) : b[i] = 1
                 up     == b[s] = 1 /\ (sticky \/ kept[1] = 1)
             IN  ShiftLeft(IF up THEN AddCarry(kept, <<1>>, 1, 0) ELSE kept, s)

\* double * small integer constant
DoubleMul(a, c) == RoundToDouble(MulCarry(a, c, 1, 0))

\* double + small integer constant
DoubleAdd(a, c) ==
    RoundToDouble(AddCarry(a, ShiftLeft(IntToBits(c), SignificandBits), 1, 0))

MathFloor(a) == BitsToInt(SubSeq(a, SignificandBits + 1, Len(a)))

\* values Math.random() returns: doubles in [0, 1); an engine that draws 53
\* random bits returns the multiples of 2^-53, up to 1 - 2^-53
MathRandom ==
    {<<>>, [i \in 1..SignificandBits |-> 1]}
    \cup {ShiftLeft(<<1>>, SignificandBits - j) : j \in 1..RandPowers}

generateFoodCoords(rx, ry) ==
    [x |-> MathFloor(DoubleAdd(DoubleMul(rx, arenaWidthBoxes), arenaX0Boxes))
               * boxSidePxls,
     y |-> MathFloor(DoubleAdd(DoubleMul(ry, arenaHeightBoxes), arenaY0Boxes))
               * boxSidePxls]

FoodChoices == {generateFoodCoords(rx, ry) : rx \in MathRandom, ry \in MathRandom}

(***************************************************************************)
(* Game state, game.js lines 55-89.                                        *)
(***************************************************************************)
VARIABLES
    snake,            \* sequence of [x, y] in pixels, head first
    snakeDir,         \* "undefined" until an arrow key is accepted
    score,
    foodCoords,
    game,             \* handle of the interval timer: undefined, null or an id
    gameFrameRateHz,
    intervals,        \* the active interval timers, [id, delay]
    keydownListeners, \* listeners registered on document for keydown
    message,          \* innerHTML of the message header
    messageColor,
    groundImg,        \* "loading", "available" (complete, load event queued),
    foodImg,          \* "loaded" (onload has run) or "broken"
    lastMoveDir,      \* snakeDir the latest tick moved the head with,
                      \* "none" before the first tick
    stopped           \* "never", or the kind of reason stopGame was called
                      \* with so far: "unknown" only, or "died" (wall, self)

(***************************************************************************)
(* To-do page state: the DOM the handlers of index.js work on.             *)
(***************************************************************************)
VARIABLES
    ul,               \* child nodes of the list, in document order: records
                      \* [kind, id, icon, text, done, fading]
    inputValue,       \* value of the text input, a sequence of tokens
    inputHidden,      \* the input has been faded out by fadeToggle
    created           \* number of li elements created so far

todoVars == <<ul, inputValue, inputHidden, created>>

vars == <<snake, snakeDir, score, foodCoords, game, gameFrameRateHz, intervals,
          keydownListeners, message, messageColor, groundImg, foodImg,
          lastMoveDir, stopped, ul, inputValue, inputHidden, created>>

keys == [left |-> 37, up |-> 38, right |-> 39, down |-> 40]
ArrowKeyCodes == {keys.left, keys.up, keys.right, keys.down}
\* the arrow keys and one other key (Enter)
KeyCodes == ArrowKeyCodes \cup {13}
SliderValues == 1..MaxSliderValue

StartMessage == "Press an arrow key to start moving!"
MovingMessage == "Yum yum carrots!"
WallMessage == "Oh no! Snake ran into the wall and died!"
SelfMessage == "Oh no! Snake ate itself!"
UnknownMessage == "unknown"

Undefined == [tag |-> "undefined", id |-> 0]
Null == [tag |-> "null", id |-> 0]
Truthy(handle) == handle.tag = "id"

\* document.addEventListener returns undefined
keyDownListener == "undefined"
removeEventListener(listeners, listener) == listeners \ {listener}

complete(img) == img # "loading"

setInterval(timers, delay) ==
    LET id == IF timers = {} THEN 1
              ELSE 1 + CHOOSE m \in {t.id : t \in timers} :
                           \A t \in timers : t.id <= m
    IN  [id |-> id, delay |-> delay]

clearInterval(timers, handle) ==
    {t \in timers : ~(Truthy(handle) /\ t.id = handle.id)}

(***************************************************************************)
(* The part of the state stopGame and tryStartingGame work on, as a record.*)
(***************************************************************************)
Control ==
    [game |-> game, intervals |-> intervals, listeners |-> keydownListeners,
     message |-> message, color |-> messageColor, stopped |-> stopped]

setGameMessage(c, msg, color) == [c EXCEPT !.message = msg, !.color = color]

stopGame(c, reasonForStopping) ==
    LET cleared == [c EXCEPT !.intervals = clearInterval(c.intervals, c.game),
                             !.game = Null,
                             !.stopped =
                                 IF reasonForStopping = UnknownMessage
                                 THEN IF c.stopped = "never" THEN "unknown"
                                      ELSE c.stopped
                                 ELSE "died"]
        shown   == setGameMessage(cleared, reasonForStopping, "red")
    IN  [shown EXCEPT
             !.listeners = removeEventListener(shown.listeners, keyDownListener)]

\* a start that does not test !game: a new timer at every call
tryStartingGame_again(c, rate) ==
    IF complete(foodImg') /\ complete(groundImg')
    THEN LET timer == setInterval(c.intervals, rate * 10)
         IN  setGameMessage([c EXCEPT !.game = [tag |-> "id", id |-> timer.id],
                                      !.intervals = c.intervals \cup {timer}],
                            StartMessage, "green")
    ELSE c

tryStartingGame(c, rate) ==
    IF complete(foodImg') /\ complete(groundImg') /\ ~Truthy(c.game)
    THEN LET timer == setInterval(c.intervals, rate * 10)
         IN  setGameMessage([c EXCEPT !.game = [tag |-> "id", id |-> timer.id],
                                      !.intervals = c.intervals \cup {timer}],
                            StartMessage, "green")
    ELSE c

SetControl(c) ==
    /\ game' = c.game
    /\ intervals' = c.intervals
    /\ keydownListeners' = c.listeners
    /\ message' = c.message
    /\ messageColor' = c.color
    /\ stopped' = c.stopped

(***************************************************************************)
(* Initial state: the script has run, both images are loading.             *)
(***************************************************************************)
GameInit ==
    /\ snake = <<[x |-> 9 * boxSidePxls, y |-> 10 * boxSidePxls]>>
    /\ snakeDir = "undefined"
    /\ score = 0
    /\ foodCoords \in FoodChoices
    /\ game = Undefined
    /\ gameFrameRateHz = 10
    /\ intervals = {}
    /\ keydownListeners = {"direction"}
    /\ message = ""
    /\ messageColor = ""
    /\ groundImg = "loading"
    /\ foodImg = "loading"
    /\ lastMoveDir = "none"
    /\ stopped = "never"

\* the to-do page after index.js has run: an empty list, an empty input
TodoInit ==
    /\ ul = <<>>
    /\ inputValue = <<>>
    /\ inputHidden = FALSE
    /\ created = 0

Init == GameInit /\ TodoInit

GameVarsUnchanged ==
    UNCHANGED <<snake, snakeDir, score, foodCoords, lastMoveDir>>

(***************************************************************************)
(* Image loading, lines 47-62.                                             *)
(***************************************************************************)
\* an image found in the cache is complete before its load event is handled
imageAvailable ==
    /\ \/ groundImg = "loading" /\ groundImg' = "available" /\ UNCHANGED foodImg
       \/ foodImg = "loading" /\ foodImg' = "available" /\ UNCHANGED groundImg
    /\ GameVarsUnchanged
    /\ UNCHANGED <<game, gameFrameRateHz, intervals, keydownListeners, message,
                   messageColor, stopped>>
    /\ UNCHANGED todoVars

\* a failed load: complete, no load event
imageBroken ==
    /\ \/ groundImg = "loading" /\ groundImg' = "broken" /\ UNCHANGED foodImg
       \/ foodImg = "loading" /\ foodImg' = "broken" /\ UNCHANGED groundImg
    /\ GameVarsUnchanged
    /\ UNCHANGED <<game, gameFrameRateHz, intervals, keydownListeners, message,
                   messageColor, stopped>>
    /\ UNCHANGED todoVars

imageLoaded ==
    /\ \/ groundImg \in {"loading", "available"} /\ groundImg' = "loaded"
          /\ UNCHANGED foodImg
       \/ foodImg \in {"loading", "available"} /\ foodImg' = "loaded"
          /\ UNCHANGED groundImg
    /\ SetControl(tryStartingGame(Control, gameFrameRateHz))
    /\ GameVarsUnchanged
    /\ UNCHANGED gameFrameRateHz
    /\ UNCHANGED todoVars

(***************************************************************************)
(* Speed slider, lines 96-101.                                             *)
(***************************************************************************)
\* a slider handler that starts a new game: the snake is put back on its cell
speedSliderChange_newGame(value) ==
    /\ gameFrameRateHz' = 25 - value
    /\ UNCHANGED <<groundImg, foodImg>>
    /\ SetControl(tryStartingGame(stopGame(Control, UnknownMessage),
                                  gameFrameRateHz'))
    /\ snake' = <<[x |-> 9 * boxSidePxls, y |-> 10 * boxSidePxls]>>
    /\ score' = 0
    /\ UNCHANGED <<snakeDir, foodCoords, lastMoveDir>>
    /\ UNCHANGED todoVars

speedSliderChange(value) ==
    /\ gameFrameRateHz' = 25 - value
    /\ UNCHANGED <<groundImg, foodImg>>
    /\ SetControl(tryStartingGame(stopGame(Control, UnknownMessage),
                                  gameFrameRateHz'))
    /\ GameVarsUnchanged
    /\ UNCHANGED todoVars

(***************************************************************************)
(* Keydown listener, lines 117-132.                                        *)
(***************************************************************************)
\* the keydown listener without its test for the opposite direction
direction_unguarded(code, dir) ==
    CASE code = keys.left -> "left" [] code = keys.up -> "up"
      [] code = keys.right -> "right" [] code = keys.down -> "down"
      [] OTHER -> dir

direction(code, dir) ==
    LET d1 == IF code = keys.left /\ dir # "right" THEN "left" ELSE dir
        d2 == IF code = keys.up /\ d1 # "down" THEN "up" ELSE d1
        d3 == IF code = keys.right /\ d2 # "left" THEN "right" ELSE d2
        d4 == IF code = keys.down /\ d3 # "up" THEN "down" ELSE d3
    IN  d4

keydown(code) ==
    /\ "direction" \in keydownListeners
    /\ IF code \in ArrowKeyCodes
       THEN /\ IF snakeDir = "undefined"
               THEN message' = MovingMessage /\ messageColor' = "green"
               ELSE UNCHANGED <<message, messageColor>>
            /\ snakeDir' = direction(code, snakeDir)
       ELSE UNCHANGED <<snakeDir, message, messageColor>>
    /\ UNCHANGED <<snake, score, foodCoords, game, gameFrameRateHz, intervals,
                   keydownListeners, groundImg, foodImg, lastMoveDir,
                   stopped>>
    /\ UNCHANGED todoVars

(***************************************************************************)
(* Game loop, lines 142-152 and 176-233.                                   *)
(***************************************************************************)
\* a tick that forgets to remove the end of the snake
pop_kept(s) == s

pop(s) == IF s = <<>> THEN s ELSE SubSeq(s, 1, Len(s) - 1)
\* the new head added at the end of the array (push for unshift)
unshift_push(s, e) == s \o <<e>>

\* the new head written over the old one (snake[0] = newHead for unshift)
unshift_overwrite(s, e) == IF s = <<>> THEN <<e>> ELSE <<e>> \o Tail(s)

unshift(s, e) == <<e>> \o s

isOutside(snakeX, snakeY) ==
    LET isSnakeWest  == snakeX < boxSidePxls
        isSnakeEast  == boxSidePxls * 17 < snakeX
        isSnakeNorth == snakeY < 3 * boxSidePxls
        isSnakeSouth == snakeY > boxSidePxls * 17
    IN  isSnakeWest \/ isSnakeEast \/ isSnakeNorth \/ isSnakeSouth

\* the four tests as an if / else-if chain whose last branch is a plain else
moveHead_elseDown(snakeX, snakeY, dir) ==
    IF dir = "left" THEN [x |-> snakeX - boxSidePxls, y |-> snakeY]
    ELSE IF dir = "right" THEN [x |-> snakeX + boxSidePxls, y |-> snakeY]
    ELSE IF dir = "up" THEN [x |-> snakeX, y |-> snakeY - boxSidePxls]
    ELSE [x |-> snakeX, y |-> snakeY + boxSidePxls]

moveHead(snakeX, snakeY, dir) ==
    LET x1 == IF dir = "left" THEN snakeX - boxSidePxls ELSE snakeX
        x2 == IF dir = "right" THEN x1 + boxSidePxls ELSE x1
        y1 == IF dir = "up" THEN snakeY - boxSidePxls ELSE snakeY
        y2 == IF dir = "down" THEN y1 + boxSidePxls ELSE y1
    IN  [x |-> x2, y |-> y2]

\* the loop over the body starting at its second segment
strikesSelf_fromSecond(s) ==
    /\ Len(s) > 1
    /\ \E i \in 3..Len(s) : s[1].x = s[i].x /\ s[1].y = s[i].y

strikesSelf(s) ==
    /\ Len(s) > 1
    /\ \E i \in 2..Len(s) : s[1].x = s[i].x /\ s[1].y = s[i].y

snakeStrikesSelf(c, s) ==
    IF strikesSelf(s) THEN stopGame(c, SelfMessage) ELSE c

\* the cells the exploration follows the head into
InWindow(head) ==
    /\ head.x \in (9 * boxSidePxls)..((9 + MaxEast) * boxSidePxls)
    /\ head.y \in (10 * boxSidePxls)
                      ..((arenaY0Boxes + arenaHeightBoxes) * boxSidePxls)

\* ctx.drawImage throws InvalidStateError for an image in the broken state:
\* such a tick ends at its first lines and changes nothing
drawGame ==
    /\ intervals # {}
    /\ groundImg # "broken" /\ foodImg # "broken"
    /\ LET snakeX  == snake[1].x
           snakeY  == snake[1].y
           eats    == snakeX = foodCoords.x /\ snakeY = foodCoords.y
           popped  == IF eats THEN snake ELSE pop(snake)
           walled  == IF isOutside(snakeX, snakeY)
                      THEN stopGame(Control, WallMessage) ELSE Control
           newHead == moveHead(snakeX, snakeY, snakeDir)
       IN  /\ InWindow(newHead)
           /\ eats => score < MaxScore
           /\ IF eats
              THEN score' = score + 1 /\ foodCoords' \in FoodChoices
              ELSE UNCHANGED <<score, foodCoords>>
           /\ snake' = unshift(popped, newHead)
           /\ SetControl(snakeStrikesSelf(walled, snake'))
           /\ lastMoveDir' = snakeDir
    /\ UNCHANGED <<snakeDir, gameFrameRateHz, groundImg, foodImg>>
    /\ UNCHANGED todoVars

Next ==
    \/ imageAvailable
    \/ imageBroken
    \/ imageLoaded
    \/ \E value \in SliderValues : speedSliderChange(value)
    \/ \E code \in KeyCodes : keydown(code)
    \/ drawGame

Spec == Init /\ [][Next]_vars

(***************************************************************************)
(* The game from its start on: both images have loaded, the second onload  *)
(* has started the timer, and no further image event can occur.  The       *)
(* initial states are the states of Spec in which imageLoaded has just run *)
(* for the second image and nothing else has happened; the steps are the   *)
(* steps of Next that are possible from there.                             *)
(***************************************************************************)
InitRunning ==
    /\ snake = <<[x |-> 9 * boxSidePxls, y |-> 10 * boxSidePxls]>>
    /\ snakeDir = "undefined"
    /\ score = 0
    /\ foodCoords \in FoodChoices
    /\ game = [tag |-> "id", id |-> 1]
    /\ gameFrameRateHz = 10
    /\ intervals = {[id |-> 1, delay |-> 100]}
    /\ keydownListeners = {"direction"}
    /\ message = StartMessage
    /\ messageColor = "green"
    /\ groundImg = "loaded"
    /\ foodImg = "loaded"
    /\ lastMoveDir = "none"
    /\ stopped = "never"
    /\ TodoInit

NextRunning ==
    \/ \E value \in SliderValues : speedSliderChange(value)
    \/ \E code \in KeyCodes : keydown(code)
    \/ drawGame

SpecRunning == InitRunning /\ [][NextRunning]_vars

(***************************************************************************)
(* To-do list, index.js.  Text is a sequence of tokens: the character "a", *)
(* and the markup a user can type, "<li>" and "</li>".                      *)
(***************************************************************************)
TextTokens == {"a", "<li>", "</li>"}
Texts == UNION {[1..n -> TextTokens] : n \in 0..MaxTextLen}

\* event.which of the keys pressed in the input: Enter and the letter a
EnterKey == 13
LetterKey == 97
TodoKeys == {EnterKey, LetterKey}

\* '<li><span><i class="fas fa-backspace"></i></span> ' + itemText + '</li>':
\* the first token is the li start tag with the icon span and the space
LiIconOpen == "<li><span><i></i></span> "
ItemHTML(itemText) == <<LiIconOpen>> \o itemText \o <<"</li>">>

NewLi(withIcon) ==
    [kind |-> "li", id |-> 0, icon |-> withIcon,
     text |-> IF withIcon THEN <<" ">> ELSE <<>>, done |-> FALSE,
     fading |-> FALSE]
NewText(c) ==
    [kind |-> "text", id |-> 0, icon |-> FALSE, text |-> <<c>>, done |-> FALSE,
     fading |-> FALSE]

\* jQuery's append(htmlString) parses the string as an HTML fragment: an li
\* start tag closes an open li and opens a new one, an li end tag closes the
\* open li and is ignored when none is open, a character goes into the open
\* li or, outside of any li, into a text node of its own level
RECURSIVE parseHTML(_, _, _, _)
parseHTML(tokens, i, nodes, open) ==
    IF i > Len(tokens) THEN nodes
    ELSE LET t    == tokens[i]
             last == Len(nodes)
         IN  CASE t = LiIconOpen ->
                      parseHTML(tokens, i + 1, Append(nodes, NewLi(TRUE)), TRUE)
               [] t = "<li>" ->
                      parseHTML(tokens, i + 1, Append(nodes, NewLi(FALSE)), TRUE)
               [] t = "</li>" ->
                      parseHTML(tokens, i + 1, nodes, FALSE)
               [] OTHER ->
                      IF open \/ (last > 0 /\ nodes[last].kind = "text")
                      THEN parseHTML(tokens, i + 1,
                               [nodes EXCEPT ![last].text = Append(@, t)], open)
                      ELSE parseHTML(tokens, i + 1, Append(nodes, NewText(t)),
                                     open)

LiCount(nodes) == Cardinality({i \in 1..Len(nodes) : nodes[i].kind = "li"})

\* the li elements of a parsed fragment are new elements: they are numbered
\* on from n
numbered(nodes, n) ==
    [i \in 1..Len(nodes) |->
        IF nodes[i].kind = "li"
        THEN [nodes[i] EXCEPT !.id = n + LiCount(SubSeq(nodes, 1, i))]
        ELSE nodes[i]]

append(list, html, n) == list \o numbered(parseHTML(html, 1, <<>>, FALSE), n)

GameUnchanged ==
    UNCHANGED <<snake, snakeDir, score, foodCoords, game, gameFrameRateHz,
                intervals, keydownListeners, message, messageColor, groundImg,
                foodImg, lastMoveDir, stopped>>

\* the user edits the text of the input
typeText(text) ==
    /\ ~inputHidden
    /\ text # inputValue
    /\ inputValue' = text
    /\ UNCHANGED <<ul, inputHidden, created>>
    /\ GameUnchanged

\* $('input').keypress, lines 13-19
keypress(which) ==
    /\ ~inputHidden
    /\ IF which = 13
       THEN LET itemText == inputValue
                list     == append(ul, ItemHTML(itemText), created)
            IN  /\ created + LiCount(list) - LiCount(ul) <= MaxCreated
                /\ inputValue' = <<>>
                /\ ul' = list
                /\ created' = created + LiCount(list) - LiCount(ul)
       ELSE UNCHANGED <<ul, inputValue, created>>
    /\ UNCHANGED inputHidden
    /\ GameUnchanged

ItemIds == 1..(IF MaxCreated > MaxItems THEN MaxCreated ELSE MaxItems)
Present(id) == \E i \in 1..Len(ul) : ul[i].kind = "li" /\ ul[i].id = id
Pos(nodes, id) ==
    CHOOSE i \in 1..Len(nodes) : nodes[i].kind = "li" /\ nodes[i].id = id

\* $(this).toggleClass('done'), lines 1-3
toggleClass(nodes, id) == [nodes EXCEPT ![Pos(nodes, id)].done = ~@]

\* $(this).parent().fadeOut(500, ...), lines 5-10
fadeOut(nodes, id) == [nodes EXCEPT ![Pos(nodes, id)].fading = TRUE]

\* the elements from the click's target up to the list that have a delegated
\* handler, the deepest first
ClickTargets == {"icon", "item"}
Path(target) == IF target = "icon" THEN <<"span", "li">> ELSE <<"li">>

\* a dispatch in which the span handler does not stop the propagation
RECURSIVE dispatch_bubbling(_, _, _)
dispatch_bubbling(nodes, id, path) ==
    IF path = <<>> THEN nodes
    ELSE IF Head(path) = "span"
         THEN dispatch_bubbling(fadeOut(nodes, id), id, Tail(path))
         ELSE dispatch_bubbling(toggleClass(nodes, id), id, Tail(path))

\* jQuery runs the delegated handlers along the path until one has called
\* event.stopPropagation(), which the span handler does (line 6)
RECURSIVE dispatch(_, _, _)
dispatch(nodes, id, path) ==
    IF path = <<>> THEN nodes
    ELSE IF Head(path) = "span"
         THEN fadeOut(nodes, id)
         ELSE dispatch(toggleClass(nodes, id), id, Tail(path))

\* a click on the icon of item id or on the item itself
click(id, target) ==
    /\ Present(id)
    /\ target = "icon" => ul[Pos(ul, id)].icon
    /\ ul' = dispatch(ul, id, Path(target))
    /\ UNCHANGED <<inputValue, inputHidden, created>>
    /\ GameUnchanged

\* the fade-out of item id ends: $(this).remove(), line 8
fadeOutComplete(id) ==
    /\ Present(id)
    /\ ul[Pos(ul, id)].fading
    /\ ul' = SelectSeq(ul, LAMBDA n : ~(n.kind = "li" /\ n.id = id))
    /\ UNCHANGED <<inputValue, inputHidden, created>>
    /\ GameUnchanged

\* $('h2 span').click: $('input').fadeToggle(), lines 21-23
fadeToggle ==
    /\ inputHidden' = ~inputHidden
    /\ UNCHANGED <<ul, inputValue, created>>
    /\ GameUnchanged

NextTodo ==
    \/ \E text \in Texts : typeText(text)
    \/ \E which \in TodoKeys : keypress(which)
    \/ \E id \in ItemIds, target \in ClickTargets : click(id, target)
    \/ \E id \in ItemIds : fadeOutComplete(id)
    \/ fadeToggle

SpecTodo == Init /\ [][NextTodo]_vars

(***************************************************************************)
(* The to-do page with a list of up to MaxItems items, each added by Enter *)
(* on an empty input and possibly clicked since; only clicks and the ends  *)
(* of fade-outs follow.  An animation jQuery has started runs to its end:  *)
(* its timer keeps firing while the page is open.                          *)
(***************************************************************************)
InitClicks ==
    /\ GameInit
    /\ \E k \in 0..MaxItems, d \in [1..MaxItems -> BOOLEAN] :
           /\ ul = [i \in 1..k |-> [NewLi(TRUE) EXCEPT !.id = i, !.done = d[i]]]
           /\ created = k
    /\ inputValue = <<>>
    /\ inputHidden = FALSE

NextClicks ==
    \/ \E id \in ItemIds, target \in ClickTargets : click(id, target)
    \/ \E id \in ItemIds : fadeOutComplete(id)

SpecClicks ==
    /\ InitClicks
    /\ [][NextClicks]_vars
    /\ \A id \in ItemIds : WF_vars(fadeOutComplete(id))

(***************************************************************************)
(* Properties.                                                             *)
(***************************************************************************)
InitialHead == [x |-> 9 * boxSidePxls, y |-> 10 * boxSidePxls]
Running == intervals # {}
Died == stopped = "died"
Opposite(d, e) ==
    <<d, e>> \in {<<"left", "right">>, <<"right", "left">>,
                  <<"up", "down">>, <<"down", "up">>}

\* C1: the direction a tick moves the head with is never the opposite of the
\* direction the previous tick moved it with, whatever keydown events came
\* between the two ticks.
C1_DirectionNeverReverses ==
    [][drawGame => ~Opposite(lastMoveDir, lastMoveDir')]_vars

\* C2: the stopped state is terminal: once stopGame has been called for a wall
\* or a self collision, no timer is active in any later state (so drawGame
\* never runs again), whatever slider, keydown and image-load events follow.
C2_StoppedIsTerminal == Died => ~Running

\* C3: once stopGame has run, no arrow-key keydown event changes snakeDir or
\* the game message, also after a restart through the speed slider.
C3_NoKeyAfterStop ==
    [][(stopped # "never" /\ \E code \in ArrowKeyCodes : keydown(code))
           => (snakeDir' = snakeDir /\ message' = message)]_vars

\* C4: every tick on a non-empty snake does exactly one of: drop the tail
\* segment, or increment the score by 1 and regenerate the food; it does the
\* second exactly when the head at the start of the tick is on the food.
C4_EatOrDropTail ==
    [][(drawGame /\ Len(snake) > 0) =>
          LET onFood      == snake[1].x = foodCoords.x /\ snake[1].y = foodCoords.y
              tailDropped == Tail(snake') = SubSeq(snake, 1, Len(snake) - 1)
              tailKept    == Tail(snake') = snake
              scored      == score' = score + 1 /\ foodCoords' \in FoodChoices
              notScored   == score' = score /\ foodCoords' = foodCoords
          IN  /\ onFood => (scored /\ tailKept /\ ~tailDropped)
              /\ ~onFood => (tailDropped /\ notScored /\ ~tailKept)]_vars

\* a tick has eaten and a later one has dropped the tail of the longer snake
C4_Witness ==
    /\ score = 1 /\ Len(snake) = 2
    /\ snake[1] # snake[2] /\ snake[2] # InitialHead
    /\ Running

\* C5: a tick that starts with the head outside the arena ends with the timer
\* cleared and the wall-death message displayed, whatever the direction and
\* the body.
C5_WallDeathMessage ==
    [][(drawGame /\ isOutside(snake[1].x, snake[1].y))
           => (~Running' /\ message' = WallMessage)]_vars

\* C6: at the end of a tick the game is stopped with the self-collision
\* message if and only if the new head, at index 0, has the coordinates of a
\* segment at index >= 1.
C6_SelfCollisionIff ==
    [][drawGame =>
          ((~Running' /\ game' = Null /\ message' = SelfMessage)
           <=> \E i \in 2..Len(snake') : snake'[i] = snake'[1])]_vars

\* a moving snake of three segments has run into its own body
C6_Witness ==
    /\ Len(snake) = 3 /\ snake[1] = snake[3] /\ snake[1] # snake[2]
    /\ message = SelfMessage /\ game = Null /\ ~Running

\* C7: one tick on the initial snake (length 1, head on cell (9,10), no
\* direction) leaves head, score and length unchanged and the game running,
\* for every food position generateFoodCoords can produce.
C7_IdleTickChangesNothing ==
    [][(drawGame /\ snake = <<InitialHead>> /\ snakeDir = "undefined")
           => (snake'[1] = snake[1] /\ score' = score
               /\ Len(snake') = Len(snake) /\ Running')]_vars

\* C8: a tick in which snakeDir is unset leaves the head position unchanged.
C8_UnsetDirectionKeepsHead ==
    [][(drawGame /\ snakeDir = "undefined") => snake'[1] = snake[1]]_vars

\* a tick has run with snakeDir unset and the game goes on
C8_Witness ==
    /\ lastMoveDir = "undefined" /\ snakeDir = "undefined"
    /\ snake = <<InitialHead>> /\ Running

\* C9: a keydown of the arrow key opposite to snakeDir leaves snakeDir
\* unchanged, every other arrow key sets snakeDir to that key's direction, and
\* every other key leaves snakeDir unchanged; the listener that does so is
\* registered in every state.
KeyDirection(code) ==
    CASE code = 37 -> "left" [] code = 38 -> "up"
      [] code = 39 -> "right" [] code = 40 -> "down" [] OTHER -> "none"
C9_KeydownSetsDirection ==
    [][/\ "direction" \in keydownListeners'
       /\ \A code \in KeyCodes :
             keydown(code) =>
                 snakeDir' = IF KeyDirection(code) = "none"
                                \/ Opposite(KeyDirection(code), snakeDir)
                             THEN snakeDir
                             ELSE KeyDirection(code)]_vars

\* an arrow key was accepted after the latest tick, after a stop of the game
C9_Witness ==
    /\ snakeDir = "up" /\ lastMoveDir = "right"
    /\ stopped # "never"

\* C10: in every reachable state the food lies on a cell of the arena: x a
\* multiple of the cell size with cell index in [1, 18), y a multiple of the
\* cell size with cell index in [3, 18).
C10_FoodInsideArena ==
    /\ foodCoords.x % boxSidePxls = 0
    /\ foodCoords.x \div boxSidePxls \in 1..17
    /\ foodCoords.y % boxSidePxls = 0
    /\ foodCoords.y \div boxSidePxls \in 3..17

\* C11: between callbacks the snake has length >= 1 and its element at index 0
\* is the head position the latest tick computed (the old head moved one cell
\* in the direction of snakeDir, or not moved when snakeDir is unset).
C11_HeadFirst ==
    [][/\ Len(snake') >= 1
       /\ drawGame =>
             snake'[1] =
                 CASE snakeDir = "left"  -> [x |-> snake[1].x - 32, y |-> snake[1].y]
                   [] snakeDir = "right" -> [x |-> snake[1].x + 32, y |-> snake[1].y]
                   [] snakeDir = "up"    -> [x |-> snake[1].x, y |-> snake[1].y - 32]
                   [] snakeDir = "down"  -> [x |-> snake[1].x, y |-> snake[1].y + 32]
                   [] OTHER              -> snake[1]]_vars

\* a snake of three segments has just turned: its head is the newest cell
C11_Witness ==
    /\ Len(snake) = 3 /\ lastMoveDir = "left" /\ Running
    /\ snake[1].x = snake[2].x - boxSidePxls /\ snake[2].y = snake[3].y + boxSidePxls

\* C14: the wall check looks at the head before the move: a tick stops the
\* game with the wall-death message if and only if its head starts outside the
\* arena, and a tick whose move takes the head out of the arena leaves the
\* game running (the next tick detects the death).
C14_WallCheckBeforeMove ==
    [][drawGame =>
          LET startsOutside == \/ snake[1].x < 32 \/ snake[1].x > 17 * 32
                               \/ snake[1].y < 3 * 32 \/ snake[1].y > 17 * 32
              endsOutside   == \/ snake'[1].x < 32 \/ snake'[1].x > 17 * 32
                               \/ snake'[1].y < 3 * 32 \/ snake'[1].y > 17 * 32
          IN  /\ message' = WallMessage => startsOutside
              /\ startsOutside => ~Running'
              /\ (~startsOutside /\ endsOutside) => Running']_vars

\* C16: between callbacks the snake's length is score + 1, and the score never
\* decreases.
C16_LengthIsScorePlusOne ==
    [][Len(snake') = score' + 1 /\ score' >= score]_vars

\* the snake has eaten twice and moved on
C16_Witness ==
    /\ score = 2 /\ Len(snake) = 3 /\ Running
    /\ snake[1] # snake[2] /\ snake[2] # snake[3] /\ snake[1] # snake[3]
    /\ snake[1] # foodCoords

\* C17: a speed-slider change leaves the snake, snakeDir, the score and the
\* food unchanged; it sets the frame rate and replaces the timer by one with
\* the new interval, so a game restarted through the slider, also after a wall
\* or self-collision stop, goes on from the state in which it was stopped.
C17_SliderKeepsGameState ==
    [][\A value \in SliderValues :
          speedSliderChange(value) =>
              /\ snake' = snake /\ snakeDir' = snakeDir
              /\ score' = score /\ foodCoords' = foodCoords
              /\ gameFrameRateHz' = 25 - value
              /\ \A t \in intervals' : t.delay = (25 - value) * 10
              /\ Cardinality(intervals') <= 1]_vars

\* a dead snake of three segments runs again on the timer of the slider
C17_Witness ==
    /\ Died /\ Running /\ gameFrameRateHz = 24
    /\ Len(snake) = 3 /\ score = 2 /\ snakeDir # "undefined"
    /\ intervals = {[id |-> 1, delay |-> 240]}
    /\ message = StartMessage

\* the image's data has arrived: its load event is queued or has been handled
Loaded(img) == img \in {"available", "loaded"}

\* C12: the game never runs (no timer is active) before both images are loaded,
\* and at most one timer is active in every reachable state.
C12_RunsOnlyWhenLoaded ==
    /\ Running => (Loaded(groundImg) /\ Loaded(foodImg))
    /\ Cardinality(intervals) <= 1

\* the step is an imageLoaded callback and it is the later of the two
LaterImageLoaded == imageLoaded /\ groundImg' = "loaded" /\ foodImg' = "loaded"

\* C15 as stated: after the later of the two imageLoaded callbacks has run, in
\* whichever order the images load and whatever slider changes are
\* interleaved, a timer is active and the start message is shown.
C15_StartedWithStartMessage ==
    [][LaterImageLoaded => (Running' /\ message' = StartMessage)]_vars

\* C15, amended: after the later of the two imageLoaded callbacks has run a
\* timer is active; the start message is shown if that callback started the
\* game, and a game that was already running keeps its timer and its message.
C15_StartedOrKeptRunning ==
    [][LaterImageLoaded =>
          /\ Running'
          /\ IF Running
             THEN intervals' = intervals /\ message' = message
             ELSE message' = StartMessage /\ messageColor' = "green"]_vars

\* both callbacks and a slider change have run, and the game waits for its
\* first key
C15_Witness ==
    /\ groundImg = "loaded" /\ foodImg = "loaded"
    /\ Running /\ message = StartMessage /\ gameFrameRateHz = 24
    /\ snakeDir = "undefined" /\ lastMoveDir = "none"

ListItems == SelectSeq(ul, LAMBDA n : n.kind = "li")

\* C13: a keypress of Enter in the text input appends exactly one item
\* carrying the input's current text at the end of the list and empties the
\* input; a keypress of any other key changes neither the list nor the
\* input's value.
C13_EnterAppendsOneItem ==
    [][\A which \in TodoKeys :
          keypress(which) =>
              IF which = EnterKey
              THEN /\ Len(ListItems') = Len(ListItems) + 1
                   /\ SubSeq(ListItems', 1, Len(ListItems)) = ListItems
                   /\ ListItems'[Len(ListItems')].text = <<" ">> \o inputValue
                   /\ Len(ul') = Len(ul) + 1
                   /\ inputValue' = <<>>
              ELSE ul' = ul /\ inputValue' = inputValue]_vars

Done(id) == ul[Pos(ul, id)].done
Fading(id) == Present(id) /\ ul[Pos(ul, id)].fading

\* C18: a click on an item's remove icon starts the item's fade-out and
\* toggles the 'done' state of no item; the 'done' state of an item changes
\* only in a click on the item itself; and an item that is fading out is
\* eventually removed from the list, whatever clicks are interleaved.
C18_IconRemovesAndNeverToggles ==
    /\ [][\A id \in ItemIds :
             click(id, "icon") =>
                 /\ Fading(id)'
                 /\ \A j \in ItemIds :
                        Present(j) => (Present(j)' /\ Done(j)' = Done(j))]_vars
    /\ [][\A j \in ItemIds :
             (Present(j) /\ Present(j)' /\ Done(j)' # Done(j))
                 => click(j, "item")]_vars
    /\ \A id \in ItemIds : Fading(id) ~> ~Present(id)

\* the second of three items has faded out and is gone; of the two left one
\* is done and the other is fading out undone
C18_Witness ==
    /\ created = 3 /\ Len(ul) = 2 /\ ~Present(2)
    /\ Done(1) /\ ~Fading(1)
    /\ Fading(3) /\ ~Done(3)

====
